---- MODULE Spec2Model ----
(***************************************************************************)
(* Procast agent: the LangGraph workflow of src/agent (graph.py, nodes.py, *)
(* routing.py, state.py) with the collaborators its nodes call             *)
(* (SQLValidator and DatabaseTools of mcp/tools.py, DatabaseManager of     *)
(* db/connection.py, the DSPy wrappers of dspy_modules).                   *)
(*                                                                         *)
(* Texts (SQL, error messages, responses) are sequences of parts: an       *)
(* f-string or a str.join is the concatenation of its parts, so that what  *)
(* a message embeds can be read off the value.  A SQL text is the sequence *)
(* of its words.                                                           *)
(***************************************************************************)
EXTENDS Integers, Sequences, FiniteSets, TLC

(* ------------------------------ bounds -------------------------------- *)
\* Number of adapter calls that succeed in one turn that the model explores
\* (total_llm_calls is unbounded in the code when the executor keeps raising).
MaxLlmCalls == 5
\* Largest row set the executor returns.
MaxRows == 2
\* Runs of generate_sql that the model counts apart (the count saturates there;
\* the code has no bound when the executor keeps raising).
MaxGenRuns == 4

(* ------------------------- program constants -------------------------- *)
MAX_SQL_RETRIES == 3

(* --------------------------- Python values ---------------------------- *)
\* Python's None for the Optional[...] fields of AgentState.
NoneVal == <<"<None>">>
\* bool(x) for an Optional text or list.
Truthy(x) == x # NoneVal /\ x # <<>>
\* str(x) as f-strings apply it.
Str(x) == IF x = NoneVal THEN <<"None">> ELSE x

\* Texts of the exceptions the adapters / the driver can raise.
ExcTexts == {"exc:adapter"}
\* Texts of the exceptions raised below the adapters.
DriverExcTexts == {"exc:sqlglot", "exc:TypeError", "exc:db", "exc:session"}
\* Rows the data store can return.
RowName(i) == <<"row:1", "row:2", "row:3", "row:4">>[i]
RowVals == {RowName(i) : i \in 1..MaxRows}
RowSeqs == {[i \in 1..n |-> RowName(i)] : n \in 0..MaxRows}

Range(s) == {s[i] : i \in 1..Len(s)}

(* ---------------------- SQLValidator (mcp/tools.py) ------------------- *)
FORBIDDEN_KEYWORDS ==
    {"INSERT", "UPDATE", "DELETE", "DROP", "CREATE", "ALTER", "TRUNCATE",
     "GRANT", "REVOKE", "EXECUTE", "EXEC", "CALL", "INTO",
     "COPY", "VACUUM", "ANALYZE", "CLUSTER", "REINDEX",
     "SET", "RESET", "SHOW", "LOCK", "UNLOCK",
     "BEGIN", "COMMIT", "ROLLBACK", "SAVEPOINT",
     "NOTIFY", "LISTEN", "UNLISTEN", "LOAD", "UNLOAD", "EXPLAIN"}

FORBIDDEN_FUNCTIONS ==
    {"pg_sleep", "pg_terminate_backend", "pg_cancel_backend",
     "pg_read_file", "pg_read_binary_file", "pg_write_file",
     "lo_import", "lo_export", "dblink", "dblink_exec"}

\* Words whose case matters to the checks, as <<lower, upper>>.
CasePairs ==
    {<<"select", "SELECT">>, <<"from", "FROM">>, <<"into", "INTO">>,
     <<"drop", "DROP">>, <<"delete", "DELETE">>, <<"table", "TABLE">>,
     <<"limit", "LIMIT">>, <<"union", "UNION">>,
     <<"pg_sleep", "PG_SLEEP">>, <<"a", "A">>, <<"t", "T">>, <<"u", "U">>}

\* str.upper() and str.lower() on one word.
UpperWord(w) ==
    IF \E p \in CasePairs : p[1] = w THEN (CHOOSE p \in CasePairs : p[1] = w)[2] ELSE w
LowerWord(w) ==
    IF \E p \in CasePairs : p[2] = w THEN (CHOOSE p \in CasePairs : p[2] = w)[1] ELSE w
Upper(sql) == [i \in 1..Len(sql) |-> UpperWord(sql[i])]
Lower(sql) == [i \in 1..Len(sql) |-> LowerWord(sql[i])]

\* Words that are white space; "\n" is the line break.
Blank == {" ", "\n"}
\* sql.strip() is empty.
IsBlank(sql) == \A i \in 1..Len(sql) : sql[i] \in Blank

\* re.search(r'\bSELECT\b.*\bINTO\b', sql_upper): '.' does not match a line break.
SelectIntoPattern(up) ==
    \E i \in 1..Len(up) : \E j \in (i + 1)..Len(up) :
        /\ up[i] = "SELECT"
        /\ up[j] = "INTO"
        /\ \A k \in (i + 1)..(j - 1) : up[k] # "\n"

\* The tokenizer of sqlglot drops a "--" comment up to the end of its line.
RECURSIVE StripComments(_)
StripComments(sql) ==
    IF sql = <<>> THEN <<>>
    ELSE IF sql[1] = "--"
         THEN IF \E i \in 1..Len(sql) : sql[i] = "\n"
              THEN LET i == CHOOSE k \in 1..Len(sql) :
                                sql[k] = "\n" /\ \A m \in 1..(k - 1) : sql[m] # "\n"
                   IN  StripComments(SubSeq(sql, i, Len(sql)))
              ELSE <<>>
         ELSE <<sql[1]>> \o StripComments(Tail(sql))

\* sqlglot.parse: the statements of the text, split at ";".
RECURSIVE SplitStatements(_)
SplitStatements(sql) ==
    IF sql = <<>> THEN <<>>
    ELSE IF \E i \in 1..Len(sql) : sql[i] = ";"
         THEN LET i == CHOOSE k \in 1..Len(sql) :
                           sql[k] = ";" /\ \A m \in 1..(k - 1) : sql[m] # ";"
              IN  <<SubSeq(sql, 1, i - 1)>> \o SplitStatements(SubSeq(sql, i + 1, Len(sql)))
         ELSE <<sql>>

\* sqlglot.parse(sql): the statements of the text without its comments; a
\* text without any token parses to the one statement None.
sqlglot_parse(sql) ==
    CHOOSE parsed \in
        {IF tokens = <<>> THEN <<<<>>>> ELSE SplitStatements(tokens) :
            tokens \in {StripComments(sql)}} : TRUE

\* The words of a statement that are not white space.
Words(stmt) == SelectSeq(stmt, LAMBDA w : w \notin Blank)

\* type(statement).__name__ of one parsed statement; "None" for an empty
\* statement, "ParseError" when sqlglot raises.
StatementType(stmt) ==
    LET ws == Upper(Words(stmt))
    IN  IF ws = <<>> THEN "None"
        ELSE IF ws[1] = "SELECT"
             THEN IF Len(ws) = 1 THEN "ParseError"
                  ELSE IF "UNION" \in Range(ws) THEN "Union" ELSE "Select"
        ELSE IF ws[1] = "DROP" THEN "Drop"
        ELSE IF ws[1] = "DELETE" THEN "Delete"
        ELSE "ParseError"

AllowedStatementTypes == {"Select", "Union", "Intersect", "Except"}

\* SQLValidator.validate(sql) -> (is_valid, error_message)
SQLValidator_validate(sql) ==
    IF sql = NoneVal \/ sql = <<>> \/ IsBlank(sql)
    THEN [ok |-> FALSE, error |-> <<"Empty query">>]
    ELSE
    LET up     == Upper(sql)
        parsed == sqlglot_parse(sql)
        types  == [i \in 1..Len(parsed) |-> StatementType(parsed[i])]
        \* the first statement at which the loop returns or raises
        bad(i) == \/ types[i] = "ParseError"
                  \/ /\ types[i] # "None"
                     /\ \/ types[i] \notin AllowedStatementTypes
                        \/ \E kw \in FORBIDDEN_KEYWORDS \ {"INTO"} : kw \in Range(up)
                        \/ \E fn \in FORBIDDEN_FUNCTIONS : fn \in Range(Lower(sql))
    IN  IF SelectIntoPattern(up)
        THEN [ok |-> FALSE, error |-> <<"SELECT INTO is not allowed">>]
        ELSE IF \E i \in 1..Len(parsed) : types[i] = "ParseError"
        THEN [ok |-> FALSE, error |-> <<"SQL parsing error: ", "exc:sqlglot">>]
        ELSE IF parsed = <<>>
        THEN [ok |-> FALSE, error |-> <<"Failed to parse SQL query">>]
        ELSE IF \E i \in 1..Len(parsed) : bad(i)
        THEN LET i == CHOOSE k \in 1..Len(parsed) : bad(k) /\ \A m \in 1..(k - 1) : ~bad(m)
             IN  IF types[i] \notin AllowedStatementTypes
                 THEN [ok |-> FALSE,
                       error |-> <<"Only SELECT queries are allowed, got: ", types[i]>>]
                 ELSE IF \E kw \in FORBIDDEN_KEYWORDS \ {"INTO"} : kw \in Range(up)
                 THEN [ok |-> FALSE, error |-> <<"Forbidden keyword detected: ">>]
                 ELSE [ok |-> FALSE, error |-> <<"Forbidden function detected: ">>]
        ELSE [ok |-> TRUE, error |-> NoneVal]

\* SQLValidator.add_limit_if_missing(sql, limit)
RECURSIVE RStripSemicolons(_)
RStripSemicolons(sql) ==
    IF sql # <<>> /\ sql[Len(sql)] = ";"
    THEN RStripSemicolons(SubSeq(sql, 1, Len(sql) - 1))
    ELSE sql

\* "LIMIT" in sql.upper() is a substring test; on words it is a word test.
add_limit_if_missing(sql) ==
    IF "LIMIT" \notin Range(Upper(sql))
    THEN RStripSemicolons(sql) \o <<" ", "LIMIT", " ", "1000">>
    ELSE sql

(* ------------------------ agent state (state.py) ---------------------- *)
VARIABLES
    state,      \* the AgentState of the turn
    pc,         \* the node the graph runs next ("END" once the turn is over)
    prev,       \* the node that ran last ("START" before the first)
    terminal,   \* the terminal node that ended the turn ("none" before)
    failures,   \* what has failed so far in the turn
    db_log,     \* the session.execute calls made on the data store
    mcp_result, \* the ToolResponse of the last execute_query tool call of the MCP server
    last_out,   \* what the adapter (or the data store) called last answered
    gen_runs,   \* how many times generate_sql has run in the turn
    breaker,    \* a CircuitBreaker of core/retry.py and the calls made through it
    stream,     \* a TokenStreamCallback of api/streaming.py, its producer and consumer
    lm,         \* the cache flags of the shared language models and the turns that set them
    store       \* the sessions and messages of the session database

\* The variables of a turn of the agent and of the MCP server.
agentVars == <<state, pc, prev, terminal, failures, db_log, mcp_result, last_out, gen_runs>>
\* The variables of the components around the agent.
serviceVars == <<breaker, stream, lm, store>>

vars == <<state, pc, prev, terminal, failures, db_log, mcp_result, last_out, gen_runs,
          breaker, stream, lm, store>>

Question == <<"txt:question">>

\* create_initial_state(user_message, ..., email, person_id)
create_initial_state(user_message, email, person_id) ==
    [messages |-> <<[role |-> "user", content |-> user_message]>>,
     email |-> email,
     person_id |-> person_id,
     intent |-> "",
     requires_db_query |-> FALSE,
     clarification_needed |-> FALSE,
     clarification_questions |-> NoneVal,
     selected_domains |-> NoneVal,
     schema_context |-> NoneVal,
     generated_sql |-> NoneVal,
     sql_validation_error |-> NoneVal,
     sql_retry_count |-> 0,
     query_results |-> NoneVal,
     query_row_count |-> 0,
     query_error |-> NoneVal,
     analysis |-> NoneVal,
     recommendations |-> NoneVal,
     confidence |-> 0,
     response |-> NoneVal,
     error |-> NoneVal,
     error_type |-> NoneVal,
     total_llm_calls |-> 0,
     total_db_queries |-> 0]

\* LangGraph's merge of a node's partial update into the state: a key of the
\* update overwrites, except messages, whose reducer is operator.add.
Merge(st, upd) ==
    [k \in DOMAIN st |->
        IF k \in DOMAIN upd
        THEN IF k = "messages" THEN st[k] \o upd[k] ELSE upd[k]
        ELSE st[k]]

\* add_assistant_message(state, content)
add_assistant_message(content) ==
    [messages |-> <<[role |-> "assistant", content |-> content]>>]

\* "\n".join(parts)
RECURSIVE Join(_)
Join(parts) ==
    IF parts = <<>> THEN <<>>
    ELSE IF Len(parts) = 1 THEN parts[1]
    ELSE parts[1] \o <<"\n">> \o Join(Tail(parts))

(* ------------------- DSPy wrappers (dspy_modules) --------------------- *)
VALID_INTENTS == {"db_query", "clarify", "general_info"}

\* What the language model can answer for the intent, before normalisation.
RawIntents ==
    {"db_query", "clarify", "general_info", "conversational", "", " General_Info "}

\* result.intent.lower().strip() on the answers that are not yet lower-case
\* and stripped.
LowerStrip(intent) == IF intent = " General_Info " THEN "general_info" ELSE intent

\* Mutant: an intent outside VALID_INTENTS is kept as it is.
IntentClassifier_forward_unnormalised(raw) ==
    LET intent0 == LowerStrip(raw.intent)
        intent  == IF raw.clarification_needed THEN "clarify" ELSE intent0
    IN  [intent |-> intent,
         requires_db_query |-> raw.requires_db_query,
         clarification_needed |-> raw.clarification_needed,
         clarification_questions |->
            IF raw.clarification_needed THEN raw.clarification_questions ELSE <<>>]

\* IntentClassifier.forward: normalises the raw prediction (the two flags are
\* the values _parse_bool returns).
IntentClassifier_forward(raw) ==
    LET lowered == LowerStrip(raw.intent)
        intent0 == IF lowered \in VALID_INTENTS THEN lowered ELSE "db_query"
        intent  == IF raw.clarification_needed THEN "clarify" ELSE intent0
    IN  [intent |-> intent,
         requires_db_query |-> raw.requires_db_query,
         clarification_needed |-> raw.clarification_needed,
         clarification_questions |->
            IF raw.clarification_needed THEN raw.clarification_questions ELSE <<>>]

\* Outcomes of one classifier call: it raises, or it returns a raw prediction.
ClassifierOutcomes ==
    [raised : {TRUE}, exc : ExcTexts]
    \cup [raised : {FALSE}, intent : RawIntents, requires_db_query : BOOLEAN,
          clarification_needed : BOOLEAN,
          clarification_questions : {<<>>, <<"txt:which project?">>}]

\* schema_registry: DOMAIN_TABLES keys (a sample) and TableSelector.BASE_DOMAINS.
VALID_DOMAINS == {"projects", "budgets", "actuals"}
BASE_DOMAINS == {"projects", "budgets"}

\* The orders in which list(set) can enumerate a set.
Orders(S) == {q \in [1..Cardinality(S) -> S] : Range(q) = S}

\* get_schemas_for_domains(domains): the schemas in the order of the list.
get_schemas_for_domains(domains) ==
    Join([i \in 1..Len(domains) |-> <<"schema:", domains[i]>>])

\* build_schema_context(domains).full_context
build_schema_context(domains) ==
    <<"DATABASE_SUMMARY", "\n\n">> \o get_schemas_for_domains(domains)
        \o <<"\n\n", "KEY_RELATIONSHIPS", "\n\n", "QUERY_PATTERNS">>

\* TableSelector._parse_domains on the names the model answered.
parse_domains(names) == names \cap VALID_DOMAINS

\* The domain names the language model answers in the turns explored.
SelectorAnswers == {{}, {"weather", "budgets"}}

\* Mutant: the base domains are not added to the parsed ones.
TableSelector_forward_parsed_only(names) == parse_domains(names)

\* TableSelector.forward: the set of domains selected for the names answered.
TableSelector_forward(names) == parse_domains(names) \cup BASE_DOMAINS

\* Outcomes of one selector call: it raises, or the model answers names and
\* TableSelector.forward returns list(selected) in some order.
SelectorOutcomes ==
    [raised : {TRUE}, exc : ExcTexts]
    \cup UNION {{[raised |-> FALSE, answer |-> names, selected_domains |-> q] :
                    q \in Orders(TableSelector_forward(names))} :
                 names \in SelectorAnswers}

\* SQL texts a client or a language model can produce.
SqlTexts ==
    {<<"select", " ", "a", " ", "from", " ", "t", ";">>,
     <<"SELECT", " ", "a", " ", "FROM", " ", "t", " ", "LIMIT", " ", "5">>,
     <<"SELECT", " ", "a", " ", "FROM", " ", "t", " ", "UNION", " ",
       "SELECT", " ", "a", " ", "FROM", " ", "u">>,
     <<"SELECT", " ", "a", ";", "\n", "SELECT", " ", "u", ";", ";">>,
     <<"DROP", " ", "TABLE", " ", "t">>,
     <<"SELECT", " ", "a", " ", "INTO", " ", "u", " ", "FROM", " ", "t">>,
     <<"SELECT", " ", "pg_sleep", "(", "1", ")">>,
     <<"SELECT", " ", "a", ";", "delete", " ", "FROM", " ", "t">>,
     <<"SELECT", " ", "a", "\n", "INTO", " ", "u", " ", "FROM", " ", "t">>,
     <<"SELECT", " ", "a", " ", "FROM", " ", "t", " ", "--", " ", "pg_sleep">>,
     <<"--", " ", "DROP", " ", "TABLE", " ", "t">>,
     <<" ">>}

\* The SQL texts the generator answers in the turns explored.
GeneratedSqlTexts ==
    {<<"select", " ", "a", " ", "from", " ", "t", ";">>,
     <<"DROP", " ", "TABLE", " ", "t">>}

\* Outcomes of one generator call: it raises, or it returns sql_query
\* (possibly None or empty).
GeneratorOutcomes ==
    [raised : {TRUE}, exc : ExcTexts]
    \cup [raised : {FALSE}, sql_query : GeneratedSqlTexts \cup {NoneVal}]

\* The confidence the language model can answer: a number (in hundredths),
\* a text that float() parses or not, or None.
RawConfidences ==
    [kind : {"num"}, parses : {TRUE}, v : {-20, 30, 90, 150}]
    \cup [kind : {"str"}, parses : {TRUE}, v : {150}]
    \cup {[kind |-> "str", parses |-> FALSE, v |-> 0],
          [kind |-> "none", parses |-> FALSE, v |-> 0]}

Min(a, b) == IF a < b THEN a ELSE b
Max(a, b) == IF a > b THEN a ELSE b

\* Mutant: the confidence is not clamped to the valid range.
AnalysisSynthesizer_forward_unclamped(raw) ==
    IF raw.kind = "none"
    THEN [raised |-> TRUE, exc |-> "exc:TypeError", confidence |-> 0]
    ELSE LET c == IF raw.kind = "str" /\ ~raw.parses THEN 70 ELSE raw.v
         IN  [raised |-> FALSE, exc |-> "", confidence |-> c]

\* AnalysisSynthesizer.forward, lines 102-123: the confidence it returns;
\* raised when min(1.0, None) raises TypeError.
AnalysisSynthesizer_forward(raw) ==
    IF raw.kind = "none"
    THEN [raised |-> TRUE, exc |-> "exc:TypeError", confidence |-> 0]
    ELSE LET c == IF raw.kind = "str" /\ ~raw.parses THEN 70 ELSE raw.v
         IN  [raised |-> FALSE, exc |-> "", confidence |-> Max(0, Min(100, c))]

\* The analysis and the recommendations the language model can answer: two
\* texts, or two empty texts.
AnalysisTexts ==
    {[analysis |-> <<"txt:analysis">>, recommendations |-> <<"txt:recommendations">>],
     [analysis |-> <<>>, recommendations |-> <<>>]}

\* Outcomes of one analyzer call: the model call raises, or it answers.
AnalyzerOutcomes ==
    [raised : {TRUE}, exc : ExcTexts]
    \cup {[raised |-> FALSE, confidence |-> c, analysis |-> t.analysis,
           recommendations |-> t.recommendations] :
            c \in RawConfidences, t \in AnalysisTexts}

(* ------------------ DatabaseManager (db/connection.py) ---------------- *)
\* lookup_person_by_email: the People table.
lookup_person_by_email(email) ==
    IF email = <<"ann@procast">> THEN <<"uuid:ann">> ELSE NoneVal

\* uuid.UUID(person_id) does not raise.
IsUUID(person_id) == person_id \in {<<"uuid:ann">>, <<"uuid:bob">>}

\* get_readonly_session: a session in which app.current_person_id is never set.
get_readonly_session == [rls |-> "unset"]

\* get_scoped_session(person_id, email): the session after
\* SET app.current_person_id = ... ('' denies all access).
get_scoped_session(person_id, email) ==
    LET resolved == IF ~Truthy(person_id) /\ Truthy(email)
                    THEN lookup_person_by_email(email)
                    ELSE person_id
    IN  IF Truthy(resolved) /\ IsUUID(resolved)
        THEN [rls |-> resolved[1]]
        ELSE [rls |-> ""]

(* ---------------------- DatabaseTools (mcp/tools.py) ------------------ *)
\* What the data store does with one query: it answers rows, or
\* session.execute raises.
DbOutcomes == [kind : {"ok"}, rows : RowSeqs] \cup [kind : {"db_error"}, rows : {<<>>}]

\* Mutant: execute_query without its own validation of the SQL.
DatabaseTools_execute_query_unchecked(sql, session, db) ==
    LET sent == add_limit_if_missing(sql)
        call == [sql |-> sent, session |-> session]
    IN  IF db.kind = "ok"
        THEN [success |-> TRUE, data |-> db.rows, row_count |-> Len(db.rows),
              error |-> NoneVal, validation_error |-> FALSE, calls |-> {call}]
        ELSE [success |-> FALSE, data |-> NoneVal, row_count |-> 0,
              error |-> <<"Query execution failed: ", "exc:db">>,
              validation_error |-> FALSE, calls |-> {call}]

\* DatabaseTools.execute_query(sql): the ToolResponse and the session.execute
\* calls it made.
DatabaseTools_execute_query(sql, session, db) ==
    LET v == SQLValidator_validate(sql)
    IN  IF ~v.ok
        THEN [success |-> FALSE, data |-> NoneVal, row_count |-> 0,
              error |-> <<"SQL validation failed: ">> \o v.error,
              validation_error |-> TRUE, calls |-> {}]
        ELSE LET sent == add_limit_if_missing(sql)
                 call == [sql |-> sent, session |-> session]
             IN  IF db.kind = "ok"
                 THEN [success |-> TRUE, data |-> db.rows, row_count |-> Len(db.rows),
                       error |-> NoneVal, validation_error |-> FALSE, calls |-> {call}]
                 ELSE [success |-> FALSE, data |-> NoneVal, row_count |-> 0,
                       error |-> <<"Query execution failed: ", "exc:db">>,
                       validation_error |-> FALSE, calls |-> {call}]

(* --------------------------- nodes (nodes.py) ------------------------- *)
\* Mutant: the except branch defaults to the general-info path.
classify_intent_node_general(st, out) ==
    IF out.raised
    THEN [intent |-> "general_info",
          requires_db_query |-> FALSE,
          clarification_needed |-> FALSE,
          error |-> <<"Intent classification failed: ", out.exc>>]
    ELSE LET result == IntentClassifier_forward(out)
         IN  [intent |-> result.intent,
              requires_db_query |-> result.requires_db_query,
              clarification_needed |-> result.clarification_needed,
              clarification_questions |-> result.clarification_questions,
              total_llm_calls |-> st.total_llm_calls + 1]

classify_intent_node(st, out) ==
    IF out.raised
    THEN [intent |-> "db_query",
          requires_db_query |-> TRUE,
          clarification_needed |-> FALSE,
          error |-> <<"Intent classification failed: ", out.exc>>]
    ELSE LET result == IntentClassifier_forward(out)
         IN  [intent |-> result.intent,
              requires_db_query |-> result.requires_db_query,
              clarification_needed |-> result.clarification_needed,
              clarification_questions |-> result.clarification_questions,
              total_llm_calls |-> st.total_llm_calls + 1]

select_tables_node(st, out) ==
    IF out.raised
    THEN [selected_domains |-> <<"projects", "budgets">>,
          schema_context |-> build_schema_context(<<"projects", "budgets">>)]
    ELSE [selected_domains |-> out.selected_domains,
          schema_context |-> build_schema_context(out.selected_domains),
          total_llm_calls |-> st.total_llm_calls + 1]

\* generate_sql_node, lines 170-182: forward_with_refinement is called when
\* the state holds a validation error, the plain generator otherwise.
generation_mode(st) ==
    IF Truthy(st.sql_validation_error) THEN "refinement" ELSE "fresh"

generate_sql_node(st, out) ==
    IF out.raised
    THEN [error |-> <<"SQL generation failed: ", out.exc>>,
          error_type |-> <<"sql_generation">>]
    ELSE [generated_sql |-> out.sql_query,
          sql_validation_error |-> NoneVal,
          total_llm_calls |-> st.total_llm_calls + 1]

validate_sql_node(st) ==
    LET sql == st.generated_sql
        v   == SQLValidator_validate(sql)
    IN  IF ~Truthy(sql)
        THEN [sql_validation_error |-> <<"No SQL query generated">>,
              sql_retry_count |-> st.sql_retry_count + 1]
        ELSE IF v.ok
        THEN [sql_validation_error |-> NoneVal]
        ELSE [sql_validation_error |-> v.error,
              sql_retry_count |-> st.sql_retry_count + 1]

\* Outcomes of one run of the executor: the session cannot be opened
\* (get_readonly_session raises), or the data store answers.
ExecutorOutcomes == [kind : {"session_error"}, rows : {<<>>}] \cup DbOutcomes

\* execute_query_node: the update it returns and the session.execute calls made.
execute_query_node(st, out) ==
    LET sql == st.generated_sql
    IN  IF ~Truthy(sql)
        THEN [upd |-> [query_error |-> <<"No SQL query to execute">>], calls |-> {}]
        ELSE IF out.kind = "session_error"
        THEN [upd |-> [query_error |-> <<"exc:session">>,
                       error |-> <<"Database query failed: ", "exc:session">>,
                       error_type |-> <<"query_execution">>],
              calls |-> {}]
        ELSE LET result == DatabaseTools_execute_query(sql, get_readonly_session, out)
             IN  IF result.success
                 THEN [upd |-> [query_results |-> result.data,
                                query_row_count |-> result.row_count,
                                query_error |-> NoneVal,
                                total_db_queries |-> st.total_db_queries + 1],
                       calls |-> result.calls]
                 ELSE [upd |-> [query_error |-> result.error,
                                sql_validation_error |-> result.error,
                                sql_retry_count |-> st.sql_retry_count + 1],
                       calls |-> result.calls]

\* Mutant: the analyzer is called even when there are no rows.
analyze_results_node_always(st, out) ==
    IF out.raised
    THEN [error |-> <<"Analysis failed: ", out.exc>>,
          error_type |-> <<"analysis">>]
    ELSE LET result == AnalysisSynthesizer_forward(out.confidence)
         IN  IF result.raised
             THEN [error |-> <<"Analysis failed: ", result.exc>>,
                   error_type |-> <<"analysis">>]
             ELSE [analysis |-> out.analysis,
                   recommendations |-> out.recommendations,
                   confidence |-> result.confidence,
                   total_llm_calls |-> st.total_llm_calls + 1]

analyze_results_node(st, out) ==
    IF ~Truthy(st.query_results)
    THEN [analysis |-> <<"No data was returned from the query.">>,
          recommendations |-> <<"Try rephrasing your question ...">>,
          confidence |-> 30]
    ELSE IF out.raised
    THEN [error |-> <<"Analysis failed: ", out.exc>>,
          error_type |-> <<"analysis">>]
    ELSE LET result == AnalysisSynthesizer_forward(out.confidence)
         IN  IF result.raised
             THEN [error |-> <<"Analysis failed: ", result.exc>>,
                   error_type |-> <<"analysis">>]
             ELSE [analysis |-> out.analysis,
                   recommendations |-> out.recommendations,
                   confidence |-> result.confidence,
                   total_llm_calls |-> st.total_llm_calls + 1]

format_response_node(st) ==
    LET parts == (IF Truthy(st.analysis) THEN <<st.analysis>> ELSE <<>>)
                 \o (IF Truthy(st.recommendations)
                     THEN <<<<"\n### Recommendations\n">>, st.recommendations>>
                     ELSE <<>>)
                 \o (IF st.confidence < 70
                     THEN <<<<"\n\n*Note: Confidence level is ", "pct", "...*">>>>
                     ELSE <<>>)
        response == Join(parts)
    IN  [response |-> response] @@ add_assistant_message(response)

handle_clarification_node(st) ==
    LET questions == IF Truthy(st.clarification_questions)
                     THEN st.clarification_questions
                     ELSE <<"Could you please provide more details ...?">>
        response  == <<"I need a bit more information to help you:\n\n">> \o questions
    IN  [response |-> response] @@ add_assistant_message(response)

handle_general_info_node(st) ==
    LET response == <<"I can help you with budget analysis ...", "DOMAINS", "Please ask ...">>
    IN  [response |-> response] @@ add_assistant_message(response)

\* str(state.get("query_results", [])[:5]); slicing None raises TypeError.
first_rows(results) ==
    IF results = NoneVal THEN <<"exc:TypeError">>
    ELSE SubSeq(results, 1, Min(5, Len(results)))

handle_error_node(st) ==
    LET error_type == st.error_type
        error      == st.error
        response ==
            IF error_type = <<"sql_generation">>
            THEN <<"I had trouble understanding how to query the database ...">>
            ELSE IF error_type = <<"query_execution">>
            THEN <<"There was an issue executing the database query ...">>
            ELSE IF error_type = <<"analysis">>
            THEN <<"I was able to get the data but had trouble analyzing it ...">>
                     \o first_rows(st.query_results)
            ELSE <<"I encountered an issue: ">> \o Str(error)
                     \o <<"\n\nPlease try again or rephrase your question.">>
    IN  [response |-> response] @@ add_assistant_message(response)

(* -------------------------- routing (routing.py) ---------------------- *)
\* Mutant: the route is chosen from the intent alone.
route_after_classification_by_intent(st) ==
    IF st.intent = "clarify"
    THEN "handle_clarification"
    ELSE IF st.intent = "general_info"
    THEN "handle_general_info"
    ELSE "select_tables"

route_after_classification(st) ==
    IF st.intent = "clarify" \/ st.clarification_needed
    THEN "handle_clarification"
    ELSE IF st.intent = "general_info" /\ ~st.requires_db_query
    THEN "handle_general_info"
    ELSE "select_tables"

\* Mutant: the retry test is off by one (<= instead of <).
route_after_sql_validation_inclusive(st) ==
    IF ~Truthy(st.sql_validation_error) THEN "execute_query"
    ELSE IF st.sql_retry_count <= MAX_SQL_RETRIES THEN "generate_sql"
    ELSE "handle_error"

route_after_sql_validation(st) ==
    IF ~Truthy(st.sql_validation_error) THEN "execute_query"
    ELSE IF st.sql_retry_count < MAX_SQL_RETRIES THEN "generate_sql"
    ELSE "handle_error"

route_after_query_execution(st) ==
    IF ~Truthy(st.query_error) THEN "analyze_results"
    ELSE IF st.sql_retry_count < MAX_SQL_RETRIES THEN "generate_sql"
    ELSE "handle_error"

(* ----- sessions and messages (sessions/repo.py, sessions/db.py) --------- *)
\* The users and the session ids of the requests explored; a request to
\* /analyze or /analyze/stream may also come without a session id.
Users == {"u1", "u2"}
SessionIds == {"s1", "s2"}
NoSession == "none"

\* The session table and the messages of SessionRepository, and the
\* chat_sessions and chat_messages tables of sessions/db.py.  A table of
\* sessions gives the user_id of each session, "absent" for an id without
\* a row; a message is kept as its session and the user whose request
\* added it.  last is the last request and whether it was answered 403.
store_init ==
    [sessions |-> [s \in SessionIds |-> "absent"],
     messages |-> {},
     chat_sessions |-> [s \in SessionIds |-> "absent"],
     chat_messages |-> {},
     last |-> [path |-> "none", user_id |-> "none", session_id |-> NoSession,
               denied |-> FALSE]]

\* SessionRepository.get_or_create_session: the id of the session found by
\* id alone, or of the session created for the user (under new_id when the
\* request names none), and the table afterwards.
SessionRepository_get_or_create_session(sessions, session_id, user_id, new_id) ==
    IF session_id # NoSession /\ sessions[session_id] # "absent"
    THEN [id |-> session_id, sessions |-> sessions, was_created |-> FALSE]
    ELSE LET id == IF session_id # NoSession THEN session_id ELSE new_id
         IN  [id |-> id, sessions |-> [sessions EXCEPT ![id] = user_id],
              was_created |-> TRUE]

\* SessionRepository.add_message
SessionRepository_add_message(messages, session_id, user_id) ==
    messages \cup {[session_id |-> session_id, user_id |-> user_id]}

\* The ids uuid4() may give: those of no session yet.
FreshIds(sessions, session_id) ==
    IF session_id # NoSession THEN {session_id}
    ELSE {s \in SessionIds : sessions[s] = "absent"}

\* POST /analyze: the session is fetched or created and the user message
\* (later the assistant message, to the same session) is added.
analyze(user_id, session_id) ==
    /\ \E new_id \in FreshIds(store.sessions, session_id) :
         LET got == SessionRepository_get_or_create_session(
                        store.sessions, session_id, user_id, new_id)
         IN  store' = [store EXCEPT
                 !.sessions = got.sessions,
                 !.messages = SessionRepository_add_message(@, got.id, user_id),
                 !.last = [path |-> "/analyze", user_id |-> user_id,
                           session_id |-> session_id, denied |-> FALSE]]
    /\ UNCHANGED <<breaker, stream, lm>>
    /\ UNCHANGED agentVars

\* POST /analyze/stream: generate_sse_response does the same.
generate_sse_response(user_id, session_id) ==
    /\ \E new_id \in FreshIds(store.sessions, session_id) :
         LET got == SessionRepository_get_or_create_session(
                        store.sessions, session_id, user_id, new_id)
         IN  store' = [store EXCEPT
                 !.sessions = got.sessions,
                 !.messages = SessionRepository_add_message(@, got.id, user_id),
                 !.last = [path |-> "/analyze/stream", user_id |-> user_id,
                           session_id |-> session_id, denied |-> FALSE]]
    /\ UNCHANGED <<breaker, stream, lm>>
    /\ UNCHANGED agentVars

\* POST /chat/stream: a session of another user is answered 403, a session
\* that does not exist is created, and the user message is inserted.
stream_chat(user_id, session_id) ==
    /\ session_id # NoSession
    /\ LET owned == store.chat_sessions[session_id] = user_id
           exists == store.chat_sessions[session_id] # "absent"
           last == [path |-> "/chat/stream", user_id |-> user_id,
                    session_id |-> session_id, denied |-> ~owned /\ exists]
       IN  IF ~owned /\ exists
           THEN store' = [store EXCEPT !.last = last]
           ELSE store' = [store EXCEPT
                   !.chat_sessions[session_id] = user_id,
                   !.chat_messages = @ \cup {[session_id |-> session_id,
                                              user_id |-> user_id]},
                   !.last = last]
    /\ UNCHANGED <<breaker, stream, lm>>
    /\ UNCHANGED agentVars

StoreNext ==
    \E user_id \in Users, session_id \in SessionIds \cup {NoSession} :
        \/ analyze(user_id, session_id)
        \/ generate_sse_response(user_id, session_id)
        \/ stream_chat(user_id, session_id)

(* ---- the cache flags of the shared LMs (dspy_modules/config.py) -------- *)
\* The number of ProcastAgent.query calls that may overlap.
MaxTurns == 2
Turns == 1..MaxTurns

\* The use_cache argument of query: None, True or False.
UseCacheArgs == {"none", "on", "off"}

\* The module-level LMs _configured_lm and _auxiliary_lm, both built with
\* cache = settings.llm_cache_enabled, and the query calls: the phase of
\* each, its use_cache argument, the cache_state it saved (<<>> stands for
\* None) and the cache flags its LLM calls have run under.
lm_init(llm_cache_enabled) ==
    [primary |-> llm_cache_enabled, auxiliary |-> llm_cache_enabled,
     llm_cache_enabled |-> llm_cache_enabled,
     turns |-> [t \in Turns |->
                  [phase |-> "idle", use_cache |-> "none", cache_state |-> <<>>,
                   seen |-> {}]]]

\* set_lm_cache_enabled(enabled, initialize=True): the previous flags and
\* the LMs with the flags set.
set_lm_cache_enabled(l, enabled) ==
    [previous |-> [primary |-> l.primary, auxiliary |-> l.auxiliary],
     lm |-> [l EXCEPT !.primary = enabled, !.auxiliary = enabled]]

restore_lm_cache_state(l, previous) ==
    [l EXCEPT !.primary = previous.primary, !.auxiliary = previous.auxiliary]

\* ProcastAgent.query up to the start of the graph.
query_start(t) ==
    /\ lm.turns[t].phase = "idle"
    /\ \E use_cache \in UseCacheArgs :
         IF use_cache # "none"
         THEN LET set == set_lm_cache_enabled(lm, use_cache = "on")
              IN  lm' = [set.lm EXCEPT
                           !.turns[t] = [phase |-> "running", use_cache |-> use_cache,
                                         cache_state |-> <<set.previous>>, seen |-> {}]]
         ELSE lm' = [lm EXCEPT
                       !.turns[t] = [phase |-> "running", use_cache |-> use_cache,
                                     cache_state |-> <<>>, seen |-> {}]]
    /\ UNCHANGED <<breaker, stream, store>>
    /\ UNCHANGED agentVars

\* A node of the running graph calls the primary or the auxiliary LM, which
\* reads its cache flag.
query_llm_call(t) ==
    /\ lm.turns[t].phase = "running"
    /\ \E flag \in {lm.primary, lm.auxiliary} :
         lm' = [lm EXCEPT !.turns[t].seen = @ \cup {flag}]
    /\ UNCHANGED <<breaker, stream, store>>
    /\ UNCHANGED agentVars

\* The graph has finished: the finally clause of query.
query_return(t) ==
    /\ lm.turns[t].phase = "running"
    /\ LET l == IF lm.turns[t].cache_state # <<>>
                THEN restore_lm_cache_state(lm, lm.turns[t].cache_state[1])
                ELSE lm
       IN  lm' = [l EXCEPT !.turns[t].phase = "returned"]
    /\ UNCHANGED <<breaker, stream, store>>
    /\ UNCHANGED agentVars

CacheNext ==
    \E t \in Turns :
        \/ query_start(t)
        \/ query_llm_call(t)
        \/ query_return(t)

(* ------------------ token streaming (api/streaming.py) ------------------ *)
\* The tokens the LLM may emit, the empty string among them, and how many
\* it emits at most in one generation.
LlmTokens == {"a", "b", ""}
MaxTokens == 3

\* TokenStreamCallback.__init__, with the producer task and the consuming
\* generator of stream_analysis_response: produced are the tokens the LLM
\* has emitted, token is the one the consumer has taken from the queue and
\* not yet looked at, yielded are the tokens the generator has yielded.
TokenStreamCallback_init ==
    [tokens |-> <<>>, done |-> FALSE, error |-> FALSE,
     producer |-> "running", consumer |-> "waiting", token |-> "",
     produced |-> <<>>, yielded |-> <<>>, error_yielded |-> FALSE]

\* on_llm_new_token
TokenStreamCallback_on_llm_new_token ==
    /\ stream.producer = "running"
    /\ Len(stream.produced) < MaxTokens
    /\ \E t \in LlmTokens :
         stream' = [stream EXCEPT !.tokens = Append(@, t),
                                  !.produced = Append(@, t)]
    /\ UNCHANGED <<breaker, lm, store>>
    /\ UNCHANGED agentVars

\* on_llm_end
TokenStreamCallback_on_llm_end ==
    /\ stream.producer = "running"
    /\ stream' = [stream EXCEPT !.done = TRUE, !.tokens = Append(@, ""),
                                !.producer = "finished"]
    /\ UNCHANGED <<breaker, lm, store>>
    /\ UNCHANGED agentVars

\* on_llm_error, or ainvoke raising inside generate()
TokenStreamCallback_on_llm_error ==
    /\ stream.producer = "running"
    /\ stream' = [stream EXCEPT !.error = TRUE, !.done = TRUE,
                                !.tokens = Append(@, ""),
                                !.producer = "finished"]
    /\ UNCHANGED <<breaker, lm, store>>
    /\ UNCHANGED agentVars

\* The consumer's tokens.get() returns the head of the queue.
stream_get ==
    /\ stream.consumer = "waiting"
    /\ stream.tokens # <<>>
    /\ stream' = [stream EXCEPT !.token = Head(stream.tokens),
                                !.tokens = Tail(@),
                                !.consumer = "got"]
    /\ UNCHANGED <<breaker, lm, store>>
    /\ UNCHANGED agentVars

\* The consumer looks at the token it got: it leaves the loop at an empty
\* token once done is set (then yields the error text if there is an
\* error), yields a non-empty token, and waits for the next one.
stream_check ==
    /\ stream.consumer = "got"
    /\ stream' =
         IF stream.done /\ stream.token = ""
         THEN [stream EXCEPT !.consumer = "ended",
                             !.error_yielded = stream.error]
         ELSE IF stream.token # ""
         THEN [stream EXCEPT !.yielded = Append(@, stream.token),
                             !.consumer = "waiting"]
         ELSE [stream EXCEPT !.consumer = "waiting"]
    /\ UNCHANGED <<breaker, lm, store>>
    /\ UNCHANGED agentVars

StreamNext ==
    \/ TokenStreamCallback_on_llm_new_token
    \/ TokenStreamCallback_on_llm_end
    \/ TokenStreamCallback_on_llm_error
    \/ stream_get
    \/ stream_check

(* ------------------ the circuit breaker (core/retry.py) ---------------- *)
\* The constructor arguments of the breakers explored: failure_threshold,
\* recovery_timeout and half_open_max_calls are each 1 or 2.
BreakerArgs == 1..2

\* The clock is read up to MaxTime; at most MaxInFlight admitted calls run
\* at once.
MaxTime == 5
MaxInFlight == 2

\* CircuitBreaker.__init__; last_failure_time -1 stands for None.  The fields
\* now, in_flight, event and streak are the clock, the admitted calls whose
\* function has not finished, the last thing that happened, and the
\* failures recorded since the last recorded success.
CircuitBreaker_init(threshold, timeout, max_calls) ==
    [failure_threshold |-> threshold, recovery_timeout |-> timeout,
     half_open_max_calls |-> max_calls,
     state |-> "CLOSED", failure_count |-> 0, last_failure_time |-> -1,
     half_open_calls |-> 0,
     now |-> 0, in_flight |-> 0, event |-> "none", streak |-> 0]

CircuitBreaker_time_until_recovery(b) ==
    IF b.last_failure_time = -1 THEN 0
    ELSE Max(0, b.recovery_timeout - (b.now - b.last_failure_time))

CircuitBreaker_check_state_untimed(b) ==
    IF b.state = "OPEN"
    THEN [b EXCEPT !.state = "HALF_OPEN", !.half_open_calls = 0]
    ELSE b

CircuitBreaker_check_state(b) ==
    IF b.state = "OPEN" /\ CircuitBreaker_time_until_recovery(b) <= 0
    THEN [b EXCEPT !.state = "HALF_OPEN", !.half_open_calls = 0]
    ELSE b

CircuitBreaker_record_success_keeping_count(b) ==
    IF b.state = "HALF_OPEN"
    THEN IF b.half_open_calls + 1 >= b.half_open_max_calls
         THEN [b EXCEPT !.half_open_calls = @ + 1, !.state = "CLOSED"]
         ELSE [b EXCEPT !.half_open_calls = @ + 1]
    ELSE [b EXCEPT !.failure_count = 0]

CircuitBreaker_record_success(b) ==
    IF b.state = "HALF_OPEN"
    THEN IF b.half_open_calls + 1 >= b.half_open_max_calls
         THEN [b EXCEPT !.half_open_calls = @ + 1, !.state = "CLOSED",
                        !.failure_count = 0]
         ELSE [b EXCEPT !.half_open_calls = @ + 1]
    ELSE [b EXCEPT !.failure_count = 0]

CircuitBreaker_record_failure(b) ==
    LET b1 == [b EXCEPT !.failure_count = @ + 1, !.last_failure_time = b.now]
    IN  IF b1.state = "HALF_OPEN" THEN [b1 EXCEPT !.state = "OPEN"]
        ELSE IF b1.failure_count >= b1.failure_threshold
             THEN [b1 EXCEPT !.state = "OPEN"]
             ELSE b1

\* CircuitBreaker.call up to the end of its locked section: the call is
\* rejected with CircuitBreakerOpen, or admitted and its function started.
CircuitBreaker_call ==
    LET b1 == CircuitBreaker_check_state(breaker)
    IN  /\ IF b1.state = "OPEN"
           THEN breaker' = [b1 EXCEPT !.event = "rejected"]
           ELSE /\ b1.in_flight < MaxInFlight
                /\ breaker' = [b1 EXCEPT !.event = "admitted",
                                         !.in_flight = @ + 1]
        /\ UNCHANGED <<stream, lm, store>>
        /\ UNCHANGED agentVars

\* The function of an admitted call returns: _record_success.
CircuitBreaker_call_returns ==
    /\ breaker.in_flight > 0
    /\ breaker' = [CircuitBreaker_record_success(breaker) EXCEPT
                      !.event = "success", !.in_flight = @ - 1, !.streak = 0]
    /\ UNCHANGED <<stream, lm, store>>
    /\ UNCHANGED agentVars

\* The function of an admitted call raises: _record_failure.
CircuitBreaker_call_raises ==
    /\ breaker.in_flight > 0
    /\ breaker' = [CircuitBreaker_record_failure(breaker) EXCEPT
                      !.event = "failure", !.in_flight = @ - 1,
                      !.streak = Min(@ + 1, breaker.failure_threshold)]
    /\ UNCHANGED <<stream, lm, store>>
    /\ UNCHANGED agentVars

\* time.time() advances.
ClockTick ==
    /\ breaker.now < MaxTime
    /\ breaker' = [breaker EXCEPT !.now = @ + 1, !.event = "tick"]
    /\ UNCHANGED <<stream, lm, store>>
    /\ UNCHANGED agentVars

BreakerNext ==
    \/ CircuitBreaker_call
    \/ CircuitBreaker_call_returns
    \/ CircuitBreaker_call_raises
    \/ ClockTick

\* No turn of the agent is running.
AgentIdle ==
    /\ state = create_initial_state(Question, NoneVal, NoneVal)
    /\ pc = "OFF"
    /\ prev = "START"
    /\ terminal = "none"
    /\ failures = {}
    /\ db_log = {}
    /\ mcp_result = [called |-> FALSE, sql |-> <<>>, success |-> FALSE,
                     validation_error |-> FALSE, calls |-> {}]
    /\ last_out = [node |-> "none"]
    /\ gen_runs = 0

\* The components other than the named one are idle.
UnusedBy(service) ==
    /\ service # "breaker" => breaker = CircuitBreaker_init(2, 2, 2)
    /\ service # "stream" => stream = TokenStreamCallback_init
    /\ service # "lm" => lm = lm_init(TRUE)
    /\ service # "store" => store = store_init

ServicesIdle == UnusedBy("agent")

\* A breaker shared by concurrent callers.
BreakerInit ==
    /\ AgentIdle
    /\ breaker \in {CircuitBreaker_init(ft, rt, hm) :
                        ft \in BreakerArgs, rt \in BreakerArgs, hm \in BreakerArgs}
    /\ UnusedBy("breaker")

BreakerSpec == BreakerInit /\ [][BreakerNext]_vars

CacheInit ==
    /\ AgentIdle
    /\ lm \in {lm_init(llm_cache_enabled) : llm_cache_enabled \in BOOLEAN}
    /\ UnusedBy("lm")

\* Overlapping ProcastAgent.query calls of one process.
CacheSpec == CacheInit /\ [][CacheNext]_vars

StoreInit ==
    /\ AgentIdle
    /\ store = store_init
    /\ UnusedBy("store")

\* The API serving requests of several users.
StoreSpec == StoreInit /\ [][StoreNext]_vars

StreamInit ==
    /\ AgentIdle
    /\ stream = TokenStreamCallback_init
    /\ UnusedBy("stream")

\* One call of stream_analysis_response; the 60 s timeout does not fire.
StreamSpec == StreamInit /\ [][StreamNext]_vars

(* ----------------------- the graph (graph.py) ------------------------- *)
\* The identities of the callers explored: an email, a person id.
Identities ==
    {[email |-> <<"ann@procast">>, person_id |-> NoneVal],
     [email |-> NoneVal, person_id |-> <<"uuid:bob">>]}

\* The process is the agent at the start of a turn (ProcastAgent.query), or
\* the MCP server of mcp/server.py waiting for tool calls (pc = "MCP").
Init ==
    /\ state \in {create_initial_state(Question, id.email, id.person_id) : id \in Identities}
    /\ pc \in {"classify_intent", "MCP"}
    /\ prev = "START"
    /\ terminal = "none"
    /\ failures = {}
    /\ db_log = {}
    /\ mcp_result = [called |-> FALSE, sql |-> <<>>, success |-> FALSE,
                     validation_error |-> FALSE, calls |-> {}]
    /\ last_out = [node |-> "none"]
    /\ gen_runs = 0
    /\ ServicesIdle

\* entry point -> classify_intent -> route_after_classification
ClassifyIntent ==
    /\ pc = "classify_intent"
    /\ \E out \in ClassifierOutcomes :
         LET st2 == Merge(state, classify_intent_node(state, out))
         IN  /\ state' = st2
             /\ pc' = route_after_classification(st2)
             /\ failures' = IF out.raised THEN failures \cup {"classifier_raised"}
                            ELSE failures
             /\ last_out' = [node |-> "classify_intent", out |-> out]
    /\ prev' = "classify_intent"
    /\ UNCHANGED <<terminal, db_log, mcp_result, gen_runs, breaker, stream, lm, store>>

\* select_tables -> generate_sql
SelectTables ==
    /\ pc = "select_tables"
    /\ \E out \in SelectorOutcomes :
         /\ state' = Merge(state, select_tables_node(state, out))
         /\ failures' = IF out.raised THEN failures \cup {"selector_raised"}
                        ELSE failures
         /\ last_out' = [node |-> "select_tables", out |-> out]
    /\ pc' = "generate_sql"
    /\ prev' = "select_tables"
    /\ UNCHANGED <<terminal, db_log, mcp_result, gen_runs, breaker, stream, lm, store>>

\* generate_sql -> validate_sql
GenerateSQL ==
    /\ pc = "generate_sql"
    /\ \E out \in GeneratorOutcomes :
         /\ ~out.raised => state.total_llm_calls < MaxLlmCalls
         /\ state' = Merge(state, generate_sql_node(state, out))
         /\ failures' = IF out.raised THEN failures \cup {"generator_raised"}
                        ELSE failures
         \* the call made: its mode, the error text it is given, and the
         \* node the turn came from
         /\ last_out' = [node |-> "generate_sql", out |-> out,
                         mode |-> generation_mode(state),
                         feedback |-> state.sql_validation_error,
                         from |-> prev]
    /\ gen_runs' = Min(gen_runs + 1, MaxGenRuns)
    /\ pc' = "validate_sql"
    /\ prev' = "generate_sql"
    /\ UNCHANGED <<terminal, db_log, mcp_result, breaker, stream, lm, store>>

\* validate_sql -> route_after_sql_validation
ValidateSQL ==
    /\ pc = "validate_sql"
    /\ LET upd == validate_sql_node(state)
           st2 == Merge(state, upd)
       IN  /\ state' = st2
           /\ pc' = route_after_sql_validation(st2)
           /\ failures' = IF Truthy(upd.sql_validation_error)
                          THEN failures \cup {"validation_failed"}
                          ELSE failures
    /\ prev' = "validate_sql"
    /\ UNCHANGED <<terminal, db_log, mcp_result, last_out, gen_runs, breaker, stream, lm, store>>

\* execute_query -> route_after_query_execution
ExecuteQuery ==
    /\ pc = "execute_query"
    /\ \E out \in ExecutorOutcomes :
         LET r   == execute_query_node(state, out)
             st2 == Merge(state, r.upd)
         IN  /\ state' = st2
             /\ pc' = route_after_query_execution(st2)
             /\ db_log' = db_log \cup {[sql |-> c.sql, session |-> c.session,
                                         via |-> "execute_query_node"] : c \in r.calls}
             /\ failures' = IF out.kind = "session_error"
                            THEN failures \cup {"executor_raised"}
                            ELSE IF out.kind = "db_error"
                            THEN failures \cup {"execution_failed"}
                            ELSE failures
             /\ last_out' = [node |-> "execute_query", out |-> out]
    /\ prev' = "execute_query"
    /\ UNCHANGED <<terminal, mcp_result, gen_runs, breaker, stream, lm, store>>

\* analyze_results -> format_response
AnalyzeResults ==
    /\ pc = "analyze_results"
    /\ \E out \in AnalyzerOutcomes :
         LET upd == analyze_results_node(state, out)
         IN  /\ state' = Merge(state, upd)
             /\ failures' = IF "error" \in DOMAIN upd
                            THEN failures \cup {"analyzer_raised"}
                            ELSE failures
             \* the analyzer is called only when there are rows (line 286)
             /\ last_out' = IF Truthy(state.query_results)
                             THEN [node |-> "analyze_results", out |-> out]
                             ELSE last_out
    /\ pc' = "format_response"
    /\ prev' = "analyze_results"
    /\ UNCHANGED <<terminal, db_log, mcp_result, gen_runs, breaker, stream, lm, store>>

\* A terminal node runs and the graph goes to END.
RunTerminal(node, upd) ==
    /\ pc = node
    /\ state' = Merge(state, upd)
    /\ pc' = "END"
    /\ prev' = node
    /\ terminal' = node
    /\ UNCHANGED <<failures, db_log, mcp_result, last_out, gen_runs, breaker, stream, lm, store>>

FormatResponse == RunTerminal("format_response", format_response_node(state))
HandleClarification == RunTerminal("handle_clarification", handle_clarification_node(state))
HandleGeneralInfo == RunTerminal("handle_general_info", handle_general_info_node(state))
HandleError == RunTerminal("handle_error", handle_error_node(state))

\* One node of the turn runs.
TurnStep ==
    \/ ClassifyIntent
    \/ SelectTables
    \/ GenerateSQL
    \/ ValidateSQL
    \/ ExecuteQuery
    \/ AnalyzeResults
    \/ FormatResponse
    \/ HandleClarification
    \/ HandleGeneralInfo
    \/ HandleError

\* mcp/server.py call_tool("execute_query"): a client of the MCP server has
\* DatabaseTools.execute_query run the SQL text it sends.
McpExecuteQuery ==
    /\ pc = "MCP"
    /\ \E sql \in SqlTexts, db \in DbOutcomes :
         LET r == DatabaseTools_execute_query(sql, get_readonly_session, db)
         IN  /\ mcp_result' = [called |-> TRUE, sql |-> sql, success |-> r.success,
                               validation_error |-> r.validation_error,
                               calls |-> r.calls]
             /\ db_log' = db_log \cup {[sql |-> c.sql, session |-> c.session,
                                         via |-> "mcp_server"] : c \in r.calls}
    /\ UNCHANGED <<state, pc, prev, terminal, failures, last_out, gen_runs, breaker, stream, lm, store>>

Next ==
    \/ ClassifyIntent
    \/ SelectTables
    \/ GenerateSQL
    \/ ValidateSQL
    \/ ExecuteQuery
    \/ AnalyzeResults
    \/ FormatResponse
    \/ HandleClarification
    \/ HandleGeneralInfo
    \/ HandleError
    \/ McpExecuteQuery

Spec == Init /\ [][Next]_vars

\* A node of the turn runs and becomes the last node run.  On the steps of
\* Next this is TurnStep, and it is enabled exactly when TurnStep is: no node
\* is routed to itself, and generate_sql can always run.
NodeRuns == pc \notin {"END", "MCP"} /\ prev' = pc

\* The graph runtime runs the next node of a turn as long as there is one.
FairSpec == Init /\ [][Next]_vars /\ WF_prev(NodeRuns)

\* ProcastAgent.query: the dictionary returned to the caller.
QueryResult(st) ==
    [response |-> st.response,
     analysis |-> st.analysis,
     recommendations |-> st.recommendations,
     confidence |-> st.confidence,
     data |-> st.query_results,
     row_count |-> st.query_row_count,
     sql_query |-> st.generated_sql,
     error |-> st.error,
     total_llm_calls |-> st.total_llm_calls,
     total_db_queries |-> st.total_db_queries]


(* ------------------------------ properties ---------------------------- *)
TerminalNodes ==
    {"format_response", "handle_clarification", "handle_general_info", "handle_error"}

\* Every text a caller or the generator can submit.
SubmittedSqlTexts == SqlTexts \cup GeneratedSqlTexts

C2_TurnTerminates == (pc = "classify_intent") ~> (terminal \in TerminalNodes)

\* C3: sql_retry_count never exceeds MAX_SQL_RETRIES, and a validation or
\* execution failure that leaves it at the bound is routed to handle_error.
C3_RetryCountBounded ==
    /\ state.sql_retry_count <= MAX_SQL_RETRIES
    /\ ( /\ state.sql_retry_count = MAX_SQL_RETRIES
         /\ \/ prev = "validate_sql" /\ Truthy(state.sql_validation_error)
            \/ prev = "execute_query" /\ Truthy(state.query_error) )
       => pc = "handle_error"

\* Witness of C3: a validation failure has just brought the counter to the bound.
C3_Witness ==
    /\ prev = "validate_sql"
    /\ Truthy(state.sql_validation_error)
    /\ state.sql_retry_count = MAX_SQL_RETRIES

\* C4: every query the ExecuteQuery step runs is executed in a session scoped
\* to the identity of the turn (app.current_person_id set from person_id/email).
C4_ExecuteQueryScoped ==
    \A e \in db_log :
        e.via = "execute_query_node" =>
            e.session = get_scoped_session(state.person_id, state.email)

\* C5: once the SQL generator has raised, generate_sql does not run again and
\* the turn ends at handle_error with error_type sql_generation.
C5_GenerationFailureNotRetried ==
    "generator_raised" \in failures =>
        /\ pc # "generate_sql"
        /\ terminal # "none" =>
             terminal = "handle_error" /\ state.error_type = <<"sql_generation">>

\* C6: a turn in which the analyzer raised ends at handle_error, not at
\* format_response.
C6_AnalysisFailureEndsAtHandleError ==
    ("analyzer_raised" \in failures /\ terminal # "none") => terminal = "handle_error"

SoftFailures ==
    {"classifier_raised", "selector_raised", "validation_failed", "execution_failed"}

\* C7: a turn whose only failures were soft and that ends at format_response
\* returns error = None.
C7_SoftErrorsNotSurfaced ==
    (terminal = "format_response" /\ failures \subseteq SoftFailures) =>
        QueryResult(state).error = NoneVal

\* C8: a turn that ends at handle_error because the retry bound was reached
\* carries the error category sql_validation_failed or retries_exhausted and a
\* non-empty response.
C8_RetryExhaustionHasCategory ==
    (terminal = "handle_error" /\ state.sql_retry_count >= MAX_SQL_RETRIES) =>
        /\ state.error_type \in {<<"sql_validation_failed">>, <<"retries_exhausted">>}
        /\ Truthy(state.response)

\* C9: the response of handle_error embeds no raw adapter or exception text
\* and no raw query row.
C9_ErrorResponseHasNoRawText ==
    terminal = "handle_error" =>
        Range(state.response) \cap (ExcTexts \cup DriverExcTexts \cup RowVals) = {}

\* C10: when the classifier raises, the node returns normally with intent
\* db_query and the router sends the turn to select_tables; the turn stays on
\* the data-query path.
C10_ClassifierFailureDegradesToDbQuery ==
    "classifier_raised" \in failures =>
        /\ state.intent = "db_query"
        /\ prev = "classify_intent" => pc = "select_tables"
        /\ terminal \notin {"handle_clarification", "handle_general_info"}

\* Witness of C10: the classifier has just raised.
C10_Witness ==
    /\ "classifier_raised" \in failures
    /\ prev = "classify_intent"

\* The happy path of a turn: the classifier answered db_query, nothing failed,
\* generate_sql ran once, the executor returned at least one row and the
\* analyzer answered.
HappyPath ==
    /\ failures = {}
    /\ state.intent = "db_query"
    /\ gen_runs = 1
    /\ Truthy(state.query_results)
    /\ last_out.node = "analyze_results"

\* C11: a turn on the happy path ends at format_response, and its result has
\* error = None, the row count of the executor's answer, a non-empty response
\* and the confidence the analyzer returned.
C11_HappyPathResult ==
    /\ (prev = "execute_query" /\ failures = {} /\ last_out.out.kind = "ok") =>
         /\ state.query_results = last_out.out.rows
         /\ state.query_row_count = Len(last_out.out.rows)
    /\ (HappyPath /\ prev = "analyze_results") => pc = "format_response"
    /\ (HappyPath /\ terminal # "none") =>
         /\ terminal = "format_response"
         /\ QueryResult(state).error = NoneVal
         /\ QueryResult(state).row_count = Len(state.query_results)
         /\ Truthy(QueryResult(state).response)
         /\ QueryResult(state).confidence =
                AnalysisSynthesizer_forward(last_out.out.confidence).confidence

\* The adapter calls of the turn, other than the generator's, that
\* total_llm_calls has counted: the classifier's and the selector's when they
\* answered, the analyzer's when it was called and answered.
OtherLlmCalls ==
    (IF "classifier_raised" \in failures THEN 0 ELSE 1)
    + (IF "selector_raised" \in failures THEN 0 ELSE 1)
    + (IF last_out.node = "analyze_results" /\ "analyzer_raised" \notin failures
       THEN 1 ELSE 0)

\* The first k generated SQL texts were rejected by validate_sql, the next one
\* was accepted and the executor ran it successfully; the turn is over.
RejectedThenAccepted(k) ==
    /\ terminal # "none"
    /\ failures \cap {"generator_raised", "executor_raised", "execution_failed"} = {}
    /\ "validation_failed" \in failures
    /\ state.sql_retry_count = k
    /\ state.query_results # NoneVal

\* C12: when the first k generated SQL texts (1 <= k < MAX_SQL_RETRIES) are
\* rejected and the next one is accepted and executes successfully,
\* generate_sql ran exactly k + 1 times, each run added one to total_llm_calls,
\* the turn ends at format_response and the final error is None.
C12_RejectedThenAcceptedEndsClean ==
    \A k \in 1..(MAX_SQL_RETRIES - 1) :
        RejectedThenAccepted(k) =>
            /\ gen_runs = k + 1
            /\ state.total_llm_calls = OtherLlmCalls + gen_runs
            /\ terminal = "format_response"
            /\ QueryResult(state).error = NoneVal

\* C13: when the executor succeeded with zero rows, the analyze_results step
\* does not call the analyzer (total_llm_calls and the last adapter answer are
\* unchanged by the step), it stores the fixed "no data" analysis, and the
\* confidence of the turn's result is at most 0.5.
C13_NoRowsSkipsAnalyzer ==
    /\ [][(pc = "analyze_results" /\ state.query_results = <<>>) =>
            /\ state'.total_llm_calls = state.total_llm_calls
            /\ last_out' = last_out
            /\ state'.analysis = <<"No data was returned from the query.">>
            /\ state'.confidence <= 50]_vars
    /\ []((terminal # "none" /\ state.query_results = <<>>) =>
            /\ state.analysis = <<"No data was returned from the query.">>
            /\ QueryResult(state).confidence <= 50)

\* Witness of C13: a turn whose executor answered zero rows is over.
C13_Witness ==
    /\ terminal = "format_response"
    /\ state.query_results = <<>>
    /\ state.query_row_count = 0
    /\ state.total_db_queries = 1

\* C14: in every terminal state the confidence of the turn's result lies in
\* [0.0, 1.0] (0..100 hundredths), whatever the analyzer adapter answered: a
\* number in or out of range, a numeric or non-numeric text, or None.
C14_ConfidenceInRange ==
    terminal # "none" =>
        /\ QueryResult(state).confidence >= 0
        /\ QueryResult(state).confidence <= 100

\* Witness of C14: a turn is over in which the analyzer adapter answered a
\* confidence above 1.0.
C14_Witness ==
    /\ terminal = "format_response"
    /\ last_out.node = "analyze_results"
    /\ ~last_out.out.raised
    /\ last_out.out.confidence.kind # "none"
    /\ last_out.out.confidence.parses
    /\ last_out.out.confidence.v > 100

\* The analyzer adapter's confidence is not a number, or is a number (or a
\* numeric text) outside [0.0, 1.0].
MalformedConfidence(raw) ==
    \/ raw.kind = "none"
    \/ raw.kind = "str" /\ ~raw.parses
    \/ raw.kind # "none" /\ raw.parses /\ (raw.v < 0 \/ raw.v > 100)

\* C15: whenever the confidence the analyzer adapter answered is non-numeric or
\* outside [0.0, 1.0], the confidence stored by the analyze_results step is the
\* default 0.7.
C15_MalformedConfidenceDefaults ==
    ( /\ prev = "analyze_results"
      /\ last_out.node = "analyze_results"
      /\ ~last_out.out.raised
      /\ MalformedConfidence(last_out.out.confidence) )
    => state.confidence = 70

\* The node the transition table gives for an intent.
IntentRoute(intent) ==
    CASE intent = "general_info" -> "handle_general_info"
      [] intent = "clarify" -> "handle_clarification"
      [] intent = "db_query" -> "select_tables"

UnknownIntentAnswered ==
    /\ prev = "classify_intent"
    /\ ~last_out.out.raised
    /\ LowerStrip(last_out.out.intent) \notin VALID_INTENTS

\* C17 (as claimed): every raw intent outside the admissible set (the empty
\* text included) is normalised to db_query and routed to select_tables, and
\* routing after classification only ever returns select_tables,
\* handle_clarification or handle_general_info.
C17_UnknownIntentToSelectTables ==
    /\ UnknownIntentAnswered =>
         state.intent = "db_query" /\ pc = "select_tables"
    /\ prev = "classify_intent" =>
         pc \in {"select_tables", "handle_clarification", "handle_general_info"}

\* C17 (amended): a raw intent outside the admissible set is normalised to
\* db_query and routed to select_tables when the answer's clarification_needed
\* is false; when it is true the intent becomes clarify and the route is
\* handle_clarification.  Routing after classification only ever returns
\* select_tables, handle_clarification or handle_general_info.
C17_UnknownIntentNormalised ==
    /\ UnknownIntentAnswered =>
         IF last_out.out.clarification_needed
         THEN state.intent = "clarify" /\ pc = "handle_clarification"
         ELSE state.intent = "db_query" /\ pc = "select_tables"
    /\ prev = "classify_intent" =>
         pc \in {"select_tables", "handle_clarification", "handle_general_info"}

\* Witness of C17: the classifier answered the empty intent without asking for
\* a clarification, and the turn went on to select_tables as db_query.
C17_Witness ==
    /\ UnknownIntentAnswered
    /\ last_out.out.intent = ""
    /\ ~last_out.out.clarification_needed
    /\ state.intent = "db_query"
    /\ pc = "select_tables"

\* select_tables has run in the turn.
SelectTablesRan ==
    last_out.node \in {"select_tables", "generate_sql", "execute_query", "analyze_results"}

\* C18: after select_tables, whether the selector answered valid domains,
\* answered no valid domain or raised, selected_domains is non-empty and
\* contains projects and budgets and schema_context is a non-empty text;
\* generate_sql is never entered with an empty schema context.
C18_BaseDomainsAlwaysSelected ==
    /\ SelectTablesRan =>
         /\ Truthy(state.selected_domains)
         /\ {"projects", "budgets"} \subseteq Range(state.selected_domains)
         /\ Truthy(state.schema_context)
    /\ pc = "generate_sql" => Truthy(state.schema_context)

\* Witness of C18: the selector has just answered no valid domain.
C18_Witness ==
    /\ prev = "select_tables"
    /\ pc = "generate_sql"
    /\ ~last_out.out.raised
    /\ last_out.out.answer = {}

\* A denylisted keyword occurs in the text as a whole word (in any case), or
\* the name of a denylisted function occurs in it.
HasDenylistedWord(sql) ==
    \/ \E kw \in FORBIDDEN_KEYWORDS : kw \in Range(Upper(sql))
    \/ \E fn \in FORBIDDEN_FUNCTIONS : fn \in Range(Lower(sql))

\* C19: SQLValidator.validate rejects every text in which a denylisted keyword
\* or function name occurs, whatever the rest of the text is: the tool call
\* fails with a validation error and runs nothing, and validate_sql records a
\* validation error.
C19_DenylistedWordRejected ==
    /\ (mcp_result.called /\ HasDenylistedWord(mcp_result.sql)) =>
         /\ mcp_result.validation_error
         /\ ~mcp_result.success
         /\ mcp_result.calls = {}
    /\ (prev = "validate_sql" /\ Truthy(state.generated_sql)
          /\ HasDenylistedWord(state.generated_sql)) =>
         Truthy(state.sql_validation_error)

\* The text has a SELECT statement with an INTO target.
IsSelectInto(sql) ==
    LET parsed == SplitStatements(StripComments(sql))
    IN  \E i \in 1..Len(parsed) :
            LET ws == Upper(Words(parsed[i]))
            IN  /\ ws # <<>>
                /\ ws[1] = "SELECT"
                /\ "INTO" \in Range(ws)

ParsedTypes(sql) ==
    LET parsed == sqlglot_parse(sql)
    IN  [i \in 1..Len(parsed) |-> StatementType(parsed[i])]

\* C21: SQLValidator.validate accepts a text only if it parses and every
\* parsed statement is a Select, Union, Intersect or Except: a text that does
\* not parse, that yields no statement, or that holds a statement of another
\* type (also after a valid SELECT) is rejected.
C21_OnlyReadStatementsAccepted ==
    (mcp_result.called /\ ~mcp_result.validation_error) =>
        LET types == ParsedTypes(mcp_result.sql)
        IN  /\ \A i \in 1..Len(types) : types[i] # "ParseError"
            /\ \E i \in 1..Len(types) : types[i] # "None"
            /\ \A i \in 1..Len(types) :
                   types[i] # "None" => types[i] \in AllowedStatementTypes

\* C22: the rendered schema context depends only on the set of the selected
\* domains: every list of the same domains, in whatever order, renders to the
\* same full_context as the list select_tables stored.
C22_SchemaContextOrderFree ==
    SelectTablesRan =>
        \A q \in Orders(Range(state.selected_domains)) :
            build_schema_context(q) = state.schema_context

\* C24: every validate_sql failure and every execute_query failure (returned
\* or raised) that goes back to generate_sql, or that ends the turn at
\* handle_error, adds exactly one to sql_retry_count, and no other step
\* changes it: the counter is the number of such failures.
C24_RetryCountsEveryFailure ==
    [][state'.sql_retry_count =
         state.sql_retry_count
           + (IF /\ pc \in {"validate_sql", "execute_query"}
                 /\ pc' \in {"generate_sql", "handle_error"}
              THEN 1 ELSE 0)]_vars

\* C25: generate_sql runs in fresh mode only on the first generation of a
\* turn; every re-entry after a validate_sql or execute_query failure runs in
\* refinement mode and is given the error text of the failure it comes from.
C25_ReentryRefinesWithError ==
    prev = "generate_sql" =>
        /\ last_out.from = "select_tables" <=> gen_runs = 1
        /\ last_out.from = "select_tables" => last_out.mode = "fresh"
        /\ last_out.from = "validate_sql" =>
             last_out.mode = "refinement" /\ Truthy(last_out.feedback)
        /\ last_out.from = "execute_query" =>
             /\ last_out.mode = "refinement"
             /\ last_out.feedback = state.query_error

\* C26: each execute_query step runs SQL that a successful generate_sql step
\* produced after the most recent validation or execution failure: when the
\* turn enters execute_query, the last generate_sql run returned the SQL (it
\* did not raise), so a SQL text that failed is not run again as it is.
C26_ExecutesFreshlyGeneratedSql ==
    pc = "execute_query" =>
        /\ last_out.node = "generate_sql"
        /\ ~last_out.out.raised
        /\ last_out.out.sql_query = state.generated_sql

\* C28: while the breaker is OPEN and its recovery timeout has not elapsed,
\* no step admits a call: a call that arrives is rejected with
\* CircuitBreakerOpen and the number of running functions does not grow,
\* whatever calls admitted earlier are still running or completing.
C28_OpenBreakerRejects ==
    [][(breaker.state = "OPEN" /\ CircuitBreaker_time_until_recovery(breaker) > 0)
        => /\ breaker'.event # "admitted"
           /\ breaker'.in_flight <= breaker.in_flight
           /\ (breaker'.event \notin {"tick", "success", "failure"}
                 => breaker'.event = "rejected" /\ breaker'.state = "OPEN")]_vars

\* A call was rejected by an OPEN breaker before the recovery timeout while a
\* call admitted earlier was still running.
C28_Witness ==
    /\ breaker.event = "rejected"
    /\ breaker.state = "OPEN"
    /\ CircuitBreaker_time_until_recovery(breaker) > 0
    /\ breaker.in_flight > 0

\* The state change of a step is one of the four edges of the breaker.
BreakerEdge ==
    LET a == breaker.state
        b == breaker'.state
    IN  /\ a # b =>
              \/ /\ a = "CLOSED" /\ b = "OPEN"
                 /\ breaker'.event = "failure"
                 /\ breaker'.failure_count = breaker.failure_threshold
                 /\ breaker'.streak = breaker.failure_threshold
              \/ /\ a = "OPEN" /\ b = "HALF_OPEN"
                 /\ breaker'.event = "admitted"
                 /\ CircuitBreaker_time_until_recovery(breaker) = 0
              \/ /\ a = "HALF_OPEN" /\ b = "OPEN"
                 /\ breaker'.event = "failure"
              \/ /\ a = "HALF_OPEN" /\ b = "CLOSED"
                 /\ breaker'.event = "success"
                 /\ breaker'.half_open_calls = breaker.half_open_max_calls
                 /\ breaker'.failure_count = 0
        /\ (a = "HALF_OPEN" /\ breaker'.event = "failure") => b = "OPEN"

\* C29: the breaker changes state only along CLOSED -> OPEN (failure_count
\* reaches failure_threshold with no success in between), OPEN -> HALF_OPEN
\* (a call arrives after the recovery timeout), HALF_OPEN -> OPEN (any
\* recorded failure) and HALF_OPEN -> CLOSED (half_open_max_calls successes
\* recorded, failure_count reset to 0); it is never CLOSED with
\* failure_count >= failure_threshold.
C29_BreakerEdges ==
    /\ [][BreakerEdge]_vars
    /\ [](breaker.state = "CLOSED" => breaker.failure_count < breaker.failure_threshold)

\* The breaker has opened, half-opened and closed again.
C29_Witness ==
    /\ breaker.state = "CLOSED"
    /\ breaker.event = "success"
    /\ breaker.half_open_calls = breaker.half_open_max_calls
    /\ breaker.last_failure_time # -1

\* The non-empty tokens of a sequence, in order.
NonEmptyTokens(seq) == SelectSeq(seq, LAMBDA t : t # "")

\* C27: when the generator of stream_analysis_response has ended, it has
\* yielded every non-empty token the LLM emitted before on_llm_end or
\* on_llm_error, in the order produced, whatever the interleaving of the
\* producer task and the consumer and also when the LLM emits empty tokens.
C27_StreamYieldsAllTokens ==
    stream.consumer = "ended" => stream.yielded = NonEmptyTokens(stream.produced)

\* The cache flag the LLM calls of a turn are to run under: its use_cache
\* override, or the configured value when it has none.
ExpectedCache(t) ==
    IF lm.turns[t].use_cache = "none" THEN lm.llm_cache_enabled
    ELSE lm.turns[t].use_cache = "on"

\* C23: when query calls with different use_cache overrides interleave, the
\* LLM calls of each turn run under that turn's own cache setting, and when
\* no call is running any more the cache flags of both LMs have the values
\* they had before the first call.
C23_CacheOverrideIsolated ==
    /\ \A t \in Turns : lm.turns[t].seen \subseteq {ExpectedCache(t)}
    /\ (\A t \in Turns : lm.turns[t].phase # "running")
         => lm.primary = lm.llm_cache_enabled /\ lm.auxiliary = lm.llm_cache_enabled

\* C30: every message added on the /analyze and /analyze/stream paths is in
\* a session whose user_id is the user of the request that added it.
C30_MessagesOnlyInOwnSessions ==
    \A m \in store.messages : store.sessions[m.session_id] = m.user_id

====
